---- MODULE Spec2Model ----
(***************************************************************************)
(* Model of scripts/sync_rss.py: two RSS feeds (Letterboxd films,          *)
(* Goodreads books) are normalised, deduplicated by id against a JSONL     *)
(* log per source, appended to that log, and rendered as one page each.    *)
(*                                                                         *)
(* Text is a sequence of one-character strings.  The glyphs of the source  *)
(* are written FULL (U+2605), HALF (U+00BD) and EMPTY (U+2606).  The       *)
(* literal "rating:" of the Goodreads pattern is one token, in lower case  *)
(* (RATING) or in another case (RATING_UC); " " is any whitespace; "x" is  *)
(* any other character.  A timestamp is an integer tick: the ISO-8601      *)
(* strings isoformat() produces after astimezone(utc) all have the same    *)
(* shape, so that their lexicographic order is the order of the ticks;     *)
(* the empty string "" that load_all_jsonl uses for a missing date_utc is  *)
(* tick 0, below every timestamp.                                          *)
(***************************************************************************)
EXTENDS Integers, Sequences, FiniteSets, TLC

VARIABLES
    log,        \* log[s]: the content of data/<s>.jsonl, a sequence of tokens
    page,       \* page[s]: the content of site/<s>.html
    pc,         \* the statement of main() to execute next, "idle" between runs
    seen,       \* seen_films / seen_books
    new,        \* new_films / new_books
    genTime,    \* the local `now` of main()
    feed,       \* feed[s]: what feedparser.parse returned for s in this run
    budget,     \* entries the feeds will still serve, over all runs
    status,     \* how the latest run ended: "none", "running", "done", "aborted"
    cause,      \* what aborted the latest aborted run
    startLog,   \* history: log at the start of the latest run
    appended,   \* history: the records the latest run appended, per source
    carried,    \* history: what the run before appended, when it aborted
    unchanged,  \* history: feed[s] equals the feed of the completed run before
    trace,      \* history: the steps of the latest run, in order
    text,       \* rating extraction alone: the title or summary given
    stars       \* rating extraction alone: the rating_stars derived from text

vars == <<log, page, pc, seen, new, genTime, feed, budget, status, cause,
          startLog, appended, carried, unchanged, trace, text, stars>>

----------------------------------------------------------------------------
(* Bounds *)

MaxEntries == 3
MaxLogLines == 1
MaxLogEntries == 1
MaxCrashEntries == 2
MaxTitleLen == 6
MaxSummaryLen == 4

----------------------------------------------------------------------------
(* Text *)

FULL == "FULL"
HALF == "HALF"
EMPTY == "EMPTY"
RATING == "rating:"
RATING_UC == "Rating:"
WS == " "
None == <<"None">>
NoRating == -1

Sources == {"films", "books"}

Max(a, b) == IF a >= b THEN a ELSE b

Repeat(c, n) == [i \in 1..Max(n, 0) |-> c]

RECURSIVE Strip(_)
Strip(s) ==
    IF s = <<>> THEN s
    ELSE IF Head(s) = WS THEN Strip(Tail(s))
    ELSE IF s[Len(s)] = WS THEN Strip(SubSeq(s, 1, Len(s) - 1))
    ELSE s

Count(s, c) == Cardinality({i \in DOMAIN s : s[i] = c})

----------------------------------------------------------------------------
(* Rating Extractor *)

\* round(): Python 3 rounds a tie to the even neighbour.  val2 is the value
\* in halves (val = val2 / 2).
PyRound(val2) ==
    LET q == val2 \div 2
        r == val2 % 2
    IN  IF r = 0 THEN q
        ELSE IF q % 2 = 0 THEN q ELSE q + 1

stars_to_5(star_str) ==
    LET full == Count(star_str, FULL)
        half == IF \E i \in DOMAIN star_str : star_str[i] = HALF THEN 1 ELSE 0
    IN  PyRound(2 * full + half)

rating_to_stars(n) ==
    IF n = NoRating THEN None
    ELSE Repeat(FULL, n) \o Repeat(EMPTY, 5 - n)

\* re.search(r"(FULL+HALF?)", title): the leftmost FULL, the whole run of
\* FULL that starts there, and the HALF right after it when there is one.
\* <<>> stands for "no match".
StarMatch(title) ==
    IF \A i \in DOMAIN title : title[i] # FULL THEN <<>>
    ELSE
        LET a == CHOOSE i \in DOMAIN title :
                    /\ title[i] = FULL
                    /\ \A j \in 1..(i - 1) : title[j] # FULL
            b == CHOOSE i \in a..Len(title) :
                    /\ \A j \in a..i : title[j] = FULL
                    /\ (i = Len(title) \/ title[i + 1] # FULL)
            e == IF b < Len(title) /\ title[b + 1] = HALF THEN b + 1 ELSE b
        IN  SubSeq(title, a, e)

FilmRating(title) ==
    LET m == StarMatch(title)
    IN  IF m = <<>> THEN NoRating ELSE stars_to_5(m)

DigitVal(d) ==
    CASE d = "0" -> 0 [] d = "1" -> 1 [] d = "2" -> 2 [] d = "3" -> 3
      [] d = "4" -> 4 [] d = "5" -> 5 [] d = "6" -> 6 [] d = "7" -> 7
      [] d = "8" -> 8 [] d = "9" -> 9

\* The position of the digit that re.search(r"rating:\s*([0-5])", summary,
\* re.IGNORECASE) captures when the match starts at i, 0 when it does not
\* match there.
RatingMatchAt(summary, i) ==
    IF summary[i] \notin {RATING, RATING_UC} THEN 0
    ELSE
        LET k == CHOOSE j \in (i + 1)..(Len(summary) + 1) :
                    /\ \A h \in (i + 1)..(j - 1) : summary[h] = WS
                    /\ (j = Len(summary) + 1 \/ summary[j] # WS)
        IN  IF k <= Len(summary) /\ summary[k] \in {"0", "1", "2", "3", "4", "5"}
            THEN k ELSE 0

BookRating(summary) ==
    LET starts == {i \in DOMAIN summary : RatingMatchAt(summary, i) # 0}
    IN  IF starts = {} THEN NoRating
        ELSE LET i == CHOOSE i \in starts : \A j \in starts : i <= j
             IN  DigitVal(summary[RatingMatchAt(summary, i)])

----------------------------------------------------------------------------
(* Entry Normalizer *)

Absent == [kind |-> "absent"]
Unparseable == [kind |-> "bad"]
DateStr(local, off) == [kind |-> "date", local |-> local, off |-> off]

\* dtp.parse(...).astimezone(timezone.utc).isoformat(): the local time less
\* its offset from UTC.
parse_date(entry, now) ==
    IF entry.published.kind = "date"
    THEN entry.published.local - entry.published.off
    ELSE IF entry.updated.kind = "date"
    THEN entry.updated.local - entry.updated.off
    ELSE now

Prefix(s) == IF s = "films" THEN <<"letterboxd:">> ELSE <<"goodreads:">>

Normalize(s, e, now) ==
    LET link == Strip(e.link)
        guid == IF Strip(e.id) # <<>> THEN Strip(e.id) ELSE link
        title == Strip(e.title)
        summary == Strip(e.summary)
        rating == IF s = "films" THEN FilmRating(title) ELSE BookRating(summary)
    IN  [id |-> Prefix(s) \o guid,
         title |-> title,
         link |-> link,
         rating_stars |-> rating_to_stars(rating),
         review_html |-> summary,
         date_utc |-> parse_date(e, now)]

normalize_letterboxd(entries, nows) ==
    [i \in DOMAIN entries |-> Normalize("films", entries[i], nows[i])]

normalize_goodreads(entries, nows) ==
    [i \in DOMAIN entries |-> Normalize("books", entries[i], nows[i])]

----------------------------------------------------------------------------
(* Deduplication Store: the JSONL text and its reading *)

\* The text of a log is a sequence of tokens: the braces of a JSON object,
\* one token per "key": value member, the newline, and two tokens for what
\* the script never writes: NumTok, a JSON value that is not an object, and
\* JunkTok, text that is not JSON.
LBrace == [t |-> "{"]
RBrace == [t |-> "}"]
NL == [t |-> "\n"]
NumTok == [t |-> "42"]
JunkTok == [t |-> "junk"]
Member(k, v) == [t |-> "member", k |-> k, v |-> v]

Keys == <<"id", "title", "link", "rating_stars", "review_html", "date_utc">>

\* json.dumps(it, ensure_ascii=False)
Dumps(it) ==
    <<LBrace>> \o [i \in DOMAIN Keys |-> Member(Keys[i], it[Keys[i]])] \o <<RBrace>>

RECURSIVE WriteAll(_)
WriteAll(items) ==
    IF items = <<>> THEN <<>>
    ELSE Dumps(Head(items)) \o <<NL>> \o WriteAll(Tail(items))

\* for line in f: the text cut after each newline; the last line may have none.
RECURSIVE Lines(_)
Lines(txt) ==
    IF txt = <<>> THEN <<>>
    ELSE IF \E i \in DOMAIN txt : txt[i].t = "\n"
    THEN LET n == CHOOSE i \in DOMAIN txt :
                    /\ txt[i].t = "\n"
                    /\ \A j \in 1..(i - 1) : txt[j].t # "\n"
         IN  <<SubSeq(txt, 1, n)>> \o Lines(SubSeq(txt, n + 1, Len(txt)))
    ELSE <<txt>>

\* json.loads(line): [ok |-> FALSE] when it raises; otherwise the value,
\* an object (isObj, obj) or something else.
Loads(line) ==
    LET body == IF line # <<>> /\ line[Len(line)].t = "\n"
                THEN SubSeq(line, 1, Len(line) - 1) ELSE line
        n == Len(body)
    IN  IF n = 1 /\ body[1].t = "42"
        THEN [ok |-> TRUE, isObj |-> FALSE, obj |-> <<>>]
        ELSE IF /\ n >= 2
                /\ body[1].t = "{"
                /\ body[n].t = "}"
                /\ \A i \in 2..(n - 1) : body[i].t = "member"
        THEN LET ks == {body[i].k : i \in 2..(n - 1)}
                 last(k) == CHOOSE i \in 2..(n - 1) :
                                /\ body[i].k = k
                                /\ \A j \in (i + 1)..(n - 1) : body[j].k # k
             IN  [ok |-> TRUE, isObj |-> TRUE,
                  obj |-> [k \in ks |-> body[last(k)].v]]
        ELSE [ok |-> FALSE, isObj |-> FALSE, obj |-> <<>>]

\* For contrast: load_ids reads nothing (as if the path did not exist).
LoadIdsNone(txt) == {}

load_ids(txt) ==
    LET ls == Lines(txt)
    IN  {Loads(ls[i]).obj.id :
            i \in {j \in DOMAIN ls :
                     /\ Loads(ls[j]).ok
                     /\ Loads(ls[j]).isObj
                     /\ "id" \in DOMAIN Loads(ls[j]).obj}}

\* For contrast: the log opened with "w" instead of "a".
AppendTruncating(txt, items) ==
    IF items = <<>> THEN txt ELSE WriteAll(items)

append_jsonl(txt, items) ==
    IF items = <<>> THEN txt ELSE txt \o WriteAll(items)

\* key=lambda x: x.get("date_utc", "")
SortKey(x) == IF "date_utc" \in DOMAIN x THEN x.date_utc ELSE 0

\* For contrast: sorted without reverse=True.
InsertAsc(sorted, x) ==
    LET n == Cardinality({i \in DOMAIN sorted : SortKey(sorted[i]) <= SortKey(x)})
    IN  SubSeq(sorted, 1, n) \o <<x>> \o SubSeq(sorted, n + 1, Len(sorted))

\* sorted(..., reverse=True) is stable: x goes after every item whose key is
\* at least its own.
InsertDesc(sorted, x) ==
    LET n == Cardinality({i \in DOMAIN sorted : SortKey(sorted[i]) >= SortKey(x)})
    IN  SubSeq(sorted, 1, n) \o <<x>> \o SubSeq(sorted, n + 1, Len(sorted))

RECURSIVE SortedDesc(_)
SortedDesc(items) ==
    IF items = <<>> THEN <<>>
    ELSE InsertDesc(SortedDesc(SubSeq(items, 1, Len(items) - 1)), items[Len(items)])

RECURSIVE Parsed(_)
Parsed(ls) ==
    IF ls = <<>> THEN <<>>
    ELSE IF Loads(Head(ls)).ok THEN <<Loads(Head(ls))>> \o Parsed(Tail(ls))
    ELSE Parsed(Tail(ls))

\* load_all_jsonl: raised when x.get fails on a value that is not an object.
load_all_jsonl(txt) ==
    LET vals == Parsed(Lines(txt))
    IN  IF \E i \in DOMAIN vals : ~vals[i].isObj
        THEN [raised |-> TRUE, items |-> <<>>]
        ELSE [raised |-> FALSE,
              items |-> SortedDesc([i \in DOMAIN vals |-> vals[i].obj])]

----------------------------------------------------------------------------
(* Page Renderer *)

\* it.get(k) or ""
GetOr(it, k) == IF k \in DOMAIN it /\ it[k] # None THEN it[k] ELSE <<>>

Block(it) ==
    [title_text |-> GetOr(it, "title"),
     link |-> GetOr(it, "link"),
     stars |-> GetOr(it, "rating_stars"),
     review |-> GetOr(it, "review_html")]

\* The page after the first k blocks are written; closed once the final
\* "</body></html>" is.
PageText(title, items, gen_time, k, closed) ==
    [title |-> title,
     css |-> IF title = "Films" THEN "css/films.css" ELSE "css/books.css",
     gen_time |-> gen_time,
     blocks |-> [i \in 1..k |-> Block(items[i])],
     closed |-> closed]

render_page(title, items, gen_time) ==
    PageText(title, items, gen_time, Len(items), TRUE)

NoPage == [title |-> "", css |-> "", gen_time |-> 0, blocks |-> <<>>, closed |-> FALSE]

PageTitle(s) == IF s = "films" THEN "Films" ELSE "Books"

----------------------------------------------------------------------------
(* What the environment supplies: feed entries and clock readings *)

Entry(id, link, title, summary, published, updated) ==
    [id |-> id, link |-> link, title |-> title, summary |-> summary,
     published |-> published, updated |-> updated]

\* A rated film; the same film after its title, review and date were edited;
\* a film with a blank guid, no link and an unparseable date.
FilmEntries ==
    { Entry(<<"g">>, <<"l">>, <<"x", WS, FULL, FULL, FULL, HALF>>, <<>>,
            DateStr(2, 1), Absent),
      Entry(<<"g">>, <<"l">>, <<"x", WS, FULL, FULL>>, <<"x">>,
            DateStr(2, 0), Absent),
      Entry(<<WS>>, <<>>, <<"x">>, <<>>, Unparseable, Absent) }

\* A rated book identified by its link alone, dated by its updated field.
BookEntries ==
    { Entry(<<>>, <<"l">>, <<"x">>, <<RATING_UC, WS, "3">>, Absent, DateStr(1, 0)) }

EntriesOf(s) == IF s = "films" THEN FilmEntries ELSE BookEntries

SeqsOver(S, n) == UNION {[1..k -> S] : k \in 0..n}

\* What a fetch can return: the feeds serve budget more entries at most.
Feeds(s) == SeqsOver(EntriesOf(s), budget)

\* datetime.now(timezone.utc): later than every date of the feeds.
NowValues == {3}

NoFeed == <<[kind |-> "nofeed"]>>

----------------------------------------------------------------------------
(* Sync Driver: main() *)

\* For contrast: main() written source by source.
OrderBySource ==
    <<"load_ids_films", "fetch_films", "append_films", "clock", "render_films",
      "load_ids_books", "fetch_books", "append_books", "render_books">>

\* The statements of main(), lines 167-178, in order.
Order ==
    <<"load_ids_films", "load_ids_books", "fetch_films", "fetch_books",
      "append_films", "append_books", "clock", "render_films", "render_books">>

StepOf(op, s) == IF s = "films" THEN op \o "_films" ELSE op \o "_books"

After(p) ==
    LET i == CHOOSE j \in DOMAIN Order : Order[j] = p
    IN  IF i = Len(Order) THEN "idle" ELSE Order[i + 1]

Empty == [s \in Sources |-> <<>>]

Quiet == text = <<>> /\ stars = <<>>

\* No run has started: the logs hold logs0, no page is written.
Idle(logs0, entries) ==
    /\ log = logs0
    /\ page = [s \in Sources |-> NoPage]
    /\ pc = "idle"
    /\ seen = [s \in Sources |-> {}]
    /\ new = Empty
    /\ genTime = 0
    /\ feed = [s \in Sources |-> NoFeed]
    /\ budget = entries
    /\ status = "none"
    /\ cause = "none"
    /\ startLog = logs0
    /\ appended = Empty
    /\ carried = Empty
    /\ unchanged = [s \in Sources |-> FALSE]
    /\ trace = <<>>

Init == Idle(Empty, MaxEntries) /\ Quiet

\* The scheduler starts the script: ensure_dirs(), fresh locals.
StartRun ==
    /\ pc = "idle"
    /\ pc' = Order[1]
    /\ status' = "running"
    /\ cause' = "none"
    /\ seen' = [s \in Sources |-> {}]
    /\ new' = Empty
    /\ genTime' = 0
    /\ feed' = IF status = "done" THEN feed ELSE [s \in Sources |-> NoFeed]
    /\ startLog' = log
    /\ carried' = IF status = "aborted"
                  THEN [s \in Sources |-> carried[s] \o appended[s]]
                  ELSE Empty
    /\ appended' = Empty
    /\ unchanged' = [s \in Sources |-> FALSE]
    /\ trace' = <<>>
    /\ UNCHANGED <<log, page, budget, text, stars>>

Advance ==
    /\ trace' = Append(trace, pc)
    /\ pc' = After(pc)
    /\ status' = IF After(pc) = "idle" THEN "done" ELSE status
    /\ UNCHANGED <<cause, startLog, carried, text, stars>>

\* The process ends with an uncaught exception: its locals are gone.
Stop(why) ==
    /\ pc' = "idle"
    /\ status' = "aborted"
    /\ cause' = why
    /\ trace' = <<>>
    /\ seen' = [s \in Sources |-> {}]
    /\ new' = Empty
    /\ genTime' = 0
    /\ feed' = [s \in Sources |-> NoFeed]
    /\ unchanged' = [s \in Sources |-> FALSE]
    /\ UNCHANGED <<budget, startLog, carried, text, stars>>

\* seen_films = load_ids(FILMS_JSONL); seen_books = load_ids(BOOKS_JSONL)
LoadIds(s) ==
    /\ pc = StepOf("load_ids", s)
    /\ seen' = [seen EXCEPT ![s] = load_ids(log[s])]
    /\ Advance
    /\ UNCHANGED <<log, page, new, genTime, feed, budget, appended, unchanged>>

\* For contrast: the list comprehension without its "not in seen" filter.
NewOfUnfiltered(s, entries, nows) ==
    IF s = "films" THEN normalize_letterboxd(entries, nows)
    ELSE normalize_goodreads(entries, nows)

NewOf(s, entries, nows) ==
    LET all == IF s = "films" THEN normalize_letterboxd(entries, nows)
               ELSE normalize_goodreads(entries, nows)
    IN  SelectSeq(all, LAMBDA x : x.id \notin seen[s])

\* new_films = [x for x in normalize_letterboxd(...) if x["id"] not in seen_films]
Fetch(s) ==
    /\ pc = StepOf("fetch", s)
    /\ \E entries \in Feeds(s) :
       \E nows \in [DOMAIN entries -> NowValues] :
          /\ \A i, j \in DOMAIN entries : i <= j => nows[i] <= nows[j]
          /\ feed' = [feed EXCEPT ![s] = entries]
          /\ budget' = budget - Len(entries)
          /\ unchanged' = [unchanged EXCEPT ![s] = (feed[s] = entries)]
          /\ new' = [new EXCEPT ![s] = NewOf(s, entries, nows)]
    /\ Advance
    /\ UNCHANGED <<log, page, seen, genTime, appended>>

\* append_jsonl(FILMS_JSONL, new_films); append_jsonl(BOOKS_JSONL, new_books)
AppendNew(s) ==
    /\ pc = StepOf("append", s)
    /\ log' = [log EXCEPT ![s] = append_jsonl(log[s], new[s])]
    /\ appended' = [appended EXCEPT ![s] = new[s]]
    /\ Advance
    /\ UNCHANGED <<page, seen, new, genTime, feed, budget, unchanged>>

\* now = datetime.now(timezone.utc).strftime(...)
ReadClock ==
    /\ pc = "clock"
    /\ \E now \in NowValues : genTime' = now
    /\ Advance
    /\ UNCHANGED <<log, page, seen, new, feed, budget, appended, unchanged>>

\* render_page(title, load_all_jsonl(path), out_path, now); an exception of
\* load_all_jsonl leaves main() before render_page is called.
Render(s) ==
    /\ pc = StepOf("render", s)
    /\ LET r == load_all_jsonl(log[s])
       IN  IF r.raised
           THEN Stop("load_all") /\ page' = page
           ELSE /\ page' = [page EXCEPT ![s] = render_page(PageTitle(s), r.items, genTime)]
                /\ Advance
                /\ UNCHANGED <<seen, new, genTime, feed, budget, unchanged>>
    /\ UNCHANGED <<log, appended>>

\* An I/O error inside render_page: open(out_path, "w") has emptied the page
\* and the first k blocks are written.
RenderFails(s) ==
    /\ pc = StepOf("render", s)
    /\ LET r == load_all_jsonl(log[s])
       IN  /\ ~r.raised
           /\ \E k \in 0..Len(r.items) :
                page' = [page EXCEPT ![s] =
                            PageText(PageTitle(s), r.items, genTime, k, FALSE)]
    /\ Stop("render")
    /\ UNCHANGED <<log, appended>>

\* An exception no statement of main() catches, raised by the statement at pc
\* before it has changed anything (feedparser, open()).
Abort ==
    /\ pc # "idle"
    /\ Stop("exception")
    /\ UNCHANGED <<log, page, appended>>

Next ==
    \/ StartRun
    \/ \E s \in Sources : LoadIds(s)
    \/ \E s \in Sources : Fetch(s)
    \/ \E s \in Sources : AppendNew(s)
    \/ ReadClock
    \/ \E s \in Sources : Render(s)
    \/ \E s \in Sources : RenderFails(s)
    \/ Abort

Spec == Init /\ [][Next]_vars

----------------------------------------------------------------------------
(* The process is killed while append_jsonl writes *)

\* The run ends inside the loop of append_jsonl: the first j records are
\* written whole, and of the next one only its first cut tokens; at
\* cut = Len(Dumps(..)) the record is whole and its newline is missing.
Interrupt(s) ==
    /\ pc = StepOf("append", s)
    /\ new[s] # <<>>
    /\ \E j \in 0..(Len(new[s]) - 1) :
       \E cut \in 0..Len(Dumps(new[s][j + 1])) :
          /\ log' = [log EXCEPT ![s] =
                        log[s] \o WriteAll(SubSeq(new[s], 1, j))
                               \o SubSeq(Dumps(new[s][j + 1]), 1, cut)]
          /\ appended' = [appended EXCEPT ![s] = SubSeq(new[s], 1, j)]
    /\ Stop("killed")
    /\ page' = page

NextCrash == Next \/ \E s \in Sources : Interrupt(s)

InitCrash == Idle(Empty, MaxCrashEntries) /\ Quiet

SpecCrash == InitCrash /\ [][NextCrash]_vars

----------------------------------------------------------------------------
(* A run over a log that holds lines the script did not write *)

\* Text that is not JSON, a JSON value that is not an object, an object
\* without id, an object without date_utc.
OldLines ==
    { <<JunkTok, NL>>,
      <<NumTok, NL>>,
      <<LBrace, Member("title", <<"n">>), Member("date_utc", 2), RBrace, NL>>,
      <<LBrace, Member("id", <<"letterboxd:", "u">>), Member("title", <<"u">>),
        RBrace, NL>> }

RECURSIVE Flatten(_)
Flatten(ls) == IF ls = <<>> THEN <<>> ELSE Head(ls) \o Flatten(Tail(ls))

OldLogs == {Flatten(ls) : ls \in SeqsOver(OldLines, MaxLogLines)}

InitLog ==
    /\ \E s \in Sources : \E old \in OldLogs :
          Idle([t \in Sources |-> IF t = s THEN old ELSE <<>>], MaxLogEntries)
    /\ Quiet

SpecLog == InitLog /\ [][Next]_vars

----------------------------------------------------------------------------
(* The rating of one title or summary *)

TitleChars == {FULL, HALF, "x"}
SummaryChars == {RATING, RATING_UC, WS, "0", "5", "6", "x"}

InitRating ==
    /\ text \in [src : {"films"}, s : SeqsOver(TitleChars, MaxTitleLen)]
                \cup [src : {"books"}, s : SeqsOver(SummaryChars, MaxSummaryLen)]
    /\ stars = <<>>
    /\ Idle(Empty, 0)

Rest == <<log, page, pc, seen, new, genTime, feed, budget, status, cause,
          startLog, appended, carried, unchanged, trace>>

\* normalize_letterboxd on one entry with this title
RateFilm ==
    /\ text.src = "films"
    /\ stars = <<>>
    /\ stars' = normalize_letterboxd(
                    <<Entry(<<"g">>, <<>>, text.s, <<>>, Absent, Absent)>>,
                    <<0>>)[1].rating_stars
    /\ UNCHANGED <<text, Rest>>

\* normalize_goodreads on one entry with this summary
RateBook ==
    /\ text.src = "books"
    /\ stars = <<>>
    /\ stars' = normalize_goodreads(
                    <<Entry(<<"g">>, <<>>, <<>>, text.s, Absent, Absent)>>,
                    <<0>>)[1].rating_stars
    /\ UNCHANGED <<text, Rest>>

NextRating == RateFilm \/ RateBook

SpecRating == InitRating /\ [][NextRating]_vars

----------------------------------------------------------------------------
(* Properties *)

Range(f) == {f[i] : i \in DOMAIN f}

IsPrefix(a, b) == Len(a) <= Len(b) /\ SubSeq(b, 1, Len(a)) = a

\* The objects on the lines of a log that parse, in file order.
Records(txt) ==
    LET vals == SelectSeq(Parsed(Lines(txt)), LAMBDA v : v.isObj)
    IN  [i \in DOMAIN vals |-> vals[i].obj]

Glyphs(n) == [i \in 1..5 |-> IF i <= n THEN FULL ELSE EMPTY]

Did(step) == step \in Range(trace)

\* C1: a run appends no entry whose id is in the source's log when the run
\* starts, whatever its title, review or date; and a run that fetches the
\* same feed as the completed run before it appends nothing.
C1_DedupById ==
    \A s \in Sources :
        /\ \A i \in DOMAIN appended[s] :
              appended[s][i].id \notin load_ids(startLog[s])
        /\ (unchanged[s] /\ Did(StepOf("append", s))) => appended[s] = <<>>

\* A completed run over the film feed of the completed run before it, which
\* holds a stored film with another title, review and date: nothing is
\* appended.
C1_Witness ==
    /\ status = "done"
    /\ appended = Empty
    /\ unchanged["films"]
    /\ \E i \in DOMAIN feed["films"] :
       \E r \in Range(Records(startLog["films"])) :
          LET n == Normalize("films", feed["films"][i], 0)
          IN  /\ r.id = n.id
              /\ r.title # n.title
              /\ r.review_html # n.review_html
              /\ r.date_utc # n.date_utc

\* C2 (as claimed): no two records of a source's log have the same id.
C2_NoDuplicateIds ==
    \A s \in Sources :
        LET recs == Records(log[s])
        IN  \A i, j \in DOMAIN recs :
              (i # j /\ "id" \in DOMAIN recs[i] /\ "id" \in DOMAIN recs[j])
                  => recs[i].id # recs[j].id

\* C3: every step leaves each log with its former content as a prefix, and
\* an append of no new entries leaves it as it was.
C3_AppendOnly ==
    [][\A s \in Sources :
          /\ IsPrefix(log[s], log'[s])
          /\ (pc = StepOf("append", s) /\ new[s] = <<>>) => log'[s] = log[s]]_vars

\* A completed run over a feed from which a stored film has disappeared:
\* the log grew by the new entry and still begins with what it held.
C3_Witness ==
    /\ status = "done"
    /\ startLog["films"] # <<>>
    /\ Len(log["films"]) > Len(startLog["films"])
    /\ \E r \in Range(Records(startLog["films"])) :
          \A i \in DOMAIN feed["films"] :
             Normalize("films", feed["films"][i], 0).id # r.id

\* C4: after a run that completes, each page is whole and holds one block
\* per record of the log, those the run appended included, in the order
\* load_all_jsonl returns: date_utc never increases, and a record without
\* date_utc is followed only by records without one.
C4_PagesListLog ==
    status = "done" =>
        \A s \in Sources :
            LET recs == Records(log[s])
                ord == load_all_jsonl(log[s]).items
                b == page[s].blocks
                has(x) == "date_utc" \in DOMAIN x
            IN  /\ page[s].closed
                /\ Len(b) = Len(recs)
                /\ Len(ord) = Len(recs)
                /\ \A i \in DOMAIN b : b[i] = Block(ord[i])
                /\ \A r \in Range(recs) :
                      Cardinality({i \in DOMAIN ord : ord[i] = r})
                          = Cardinality({i \in DOMAIN recs : recs[i] = r})
                /\ Range(appended[s]) \subseteq Range(recs)
                /\ \A i, j \in DOMAIN ord :
                      i < j =>
                          /\ (has(ord[i]) /\ has(ord[j]))
                                => ord[i].date_utc >= ord[j].date_utc
                          /\ ~has(ord[i]) => ~has(ord[j])

\* A completed run that appended to a log in which a record without
\* date_utc stands before a dated one: the page lists the dated ones first.
C4_Witness ==
    /\ status = "done"
    /\ \E s \in Sources :
          LET recs == Records(log[s])
          IN  /\ appended[s] # <<>>
              /\ Len(page[s].blocks) >= 2
              /\ \E i, j \in DOMAIN recs :
                    /\ i < j
                    /\ "date_utc" \notin DOMAIN recs[i]
                    /\ "date_utc" \in DOMAIN recs[j]
                    /\ page[s].blocks[Len(recs)] = Block(recs[i])

\* C5 (as claimed): no run is ended by what a log holds: load_all_jsonl
\* never raises.
C5_TolerantRead == cause # "load_all"

\* C6 (as claimed): a rating_stars is null or n FULL then 5 - n EMPTY.
C6_FiveGlyphs ==
    stars # <<>> => (stars = None \/ \E n \in 0..5 : stars = Glyphs(n))

FirstFull(t) == CHOOSE i \in DOMAIN t : t[i] = FULL /\ \A j \in 1..(i - 1) : t[j] # FULL

RunLen(t) ==
    IF \A i \in DOMAIN t : t[i] # FULL THEN 0
    ELSE LET a == FirstFull(t)
         IN  Cardinality({i \in a..Len(t) : \A j \in a..i : t[j] = FULL})

HalfFollows(t) ==
    LET e == FirstFull(t) + RunLen(t)
    IN  e <= Len(t) /\ t[e] = HALF

\* C7 (as claimed): a first run of k FULL, 1 <= k <= 4, followed by HALF gives
\* the rating k + 1; without the HALF it gives k.
C7_HalfRoundsUp ==
    (stars # <<>> /\ text.src = "films") =>
        LET k == RunLen(text.s)
        IN  k \in 1..4 =>
                stars = Glyphs(IF HalfFollows(text.s) THEN k + 1 ELSE k)

\* C8 (as claimed): no step of the book source, its fetch included, begins
\* before the film page is rendered.
C8_FilmsThenBooks ==
    \A i \in DOMAIN trace :
        trace[i] \in {"fetch_books", "append_books", "render_books"}
            => \E j \in 1..(i - 1) : trace[j] = "render_films"

\* C8 (amended): the run goes phase by phase, the film step before the book
\* step in each phase: both id sets, both fetches, both appends, the clock,
\* both renders; no log changes before both feeds are fetched and filtered.
C8_PhaseByPhase ==
    /\ IsPrefix(trace,
                <<"load_ids_films", "load_ids_books", "fetch_films", "fetch_books",
                  "append_films", "append_books", "clock", "render_films",
                  "render_books">>)
    /\ (status = "running" /\ ~Did("fetch_books"))
            => (log = startLog /\ appended = Empty)

\* Both feeds are fetched and filtered, each with new entries, and the film
\* log is still as the run found it.
C8_Witness ==
    /\ pc = "append_films"
    /\ new["films"] # <<>>
    /\ new["books"] # <<>>
    /\ log = startLog

\* C9: what an aborted run appended stays in the log; the next run that
\* completes appends no entry with such an id and its pages list them.
C9_RecoveryByRereading ==
    \A s \in Sources :
        /\ status = "aborted" => Range(appended[s]) \subseteq Range(Records(log[s]))
        /\ status = "done" =>
              \A r \in Range(carried[s]) :
                  /\ r \in Range(Records(log[s]))
                  /\ \A i \in DOMAIN appended[s] : appended[s][i].id # r.id
                  /\ Block(r) \in Range(page[s].blocks)

\* A run that completes after a run that aborted once its film append was done.
C9_Witness ==
    /\ status = "done"
    /\ carried["films"] # <<>>
    /\ \E i \in DOMAIN feed["films"] :
          Normalize("films", feed["films"][i], 0).id = carried["films"][1].id

\* C10 (as claimed): every record a run has written in full, before it was
\* killed or not, is read back by load_ids and load_all_jsonl.
C10_CrashSafe ==
    \A s \in Sources :
        \A r \in Range(appended[s]) :
            /\ r \in Range(Records(log[s]))
            /\ r.id \in load_ids(log[s])

====
